---- MODULE Spec2Model ----
(***************************************************************************)
(* MultiSiteScraper (scraper.js): the result cache, the shared browser     *)
(* handle and the search / getProductDetails request paths, as a state     *)
(* machine.  Every `await` of the source is a point where another request  *)
(* may run; the code between two awaits is one atomic step.  The browser   *)
(* driver (puppeteer) is the environment: each of its calls either         *)
(* resolves or rejects, and the page it shows is chosen by the environment.*)
(* JavaScript null is None (the empty tuple) and a present value v is      *)
(* Some(v) (a one-element tuple).                                          *)
(***************************************************************************)
EXTENDS Integers, Sequences, FiniteSets, TLC

\* ------------------------------------------------------------ bounds
\* calls made on the scraper in one behaviour
MaxReq == 2
\* clock advances in one behaviour
MaxTicks == 2

\* ------------------------------------------------------- option values
None == <<>>
Some(x) == <<x>>
IsSome(o) == o # None
Val(o) == o[1]

\* ------------------------------------------------------------ strings
\* String.prototype.trim for the blank used in the pages of this model
RECURSIVE TrimLeft(_)
TrimLeft(s) ==
  IF Len(s) > 0 /\ SubSeq(s, 1, 1) = " " THEN TrimLeft(SubSeq(s, 2, Len(s))) ELSE s

RECURSIVE TrimRight(_)
TrimRight(s) ==
  IF Len(s) > 0 /\ SubSeq(s, Len(s), Len(s)) = " "
  THEN TrimRight(SubSeq(s, 1, Len(s) - 1)) ELSE s

Trim(s) == TrimRight(TrimLeft(s))

\* String.prototype.startsWith
StartsWith(s, p) == Len(s) >= Len(p) /\ SubSeq(s, 1, Len(p)) = p

\* String.prototype.includes
Includes(s, p) ==
  \E i \in 1..(Len(s) - Len(p) + 1) : SubSeq(s, i, i + Len(p) - 1) = p

\* the truthiness of a string-or-null value: null and "" are falsy
Truthy(o) == IsSome(o) /\ Val(o) # ""

\* ----------------------------------------------------------- the clock
\* this.cacheTimeout
cacheTimeout == 60 * 60 * 1000
\* the clock of the model advances by half the cache lifetime
TickMs == cacheTimeout \div 2

Pad2(n) == IF n < 10 THEN "0" \o ToString(n) ELSE ToString(n)
Pad3(n) == IF n < 10 THEN "00" \o ToString(n)
           ELSE IF n < 100 THEN "0" \o ToString(n) ELSE ToString(n)

\* Date.prototype.toISOString of an instant of the first day of the epoch
toISOString(ms) ==
  "1970-01-01T" \o Pad2((ms \div 3600000) % 24) \o ":" \o Pad2((ms \div 60000) % 60)
    \o ":" \o Pad2((ms \div 1000) % 60) \o "." \o Pad3(ms % 1000) \o "Z"

\* ------------------------------------------------------ the page (DOM)
\* An element: its textContent, its attributes, and what its
\* querySelectorAll gives for each selector that matches below it.
Elem(text, attrs, sub) == [text |-> text, attrs |-> attrs, sub |-> sub]
NoAttrs == <<>>
NoSub == <<>>

\* Element.querySelectorAll / Document.querySelectorAll
querySelectorAll(el, selector) ==
  IF selector \in DOMAIN el.sub THEN el.sub[selector] ELSE <<>>

\* Element.querySelector / Document.querySelector: the first match or null
querySelector(el, selector) ==
  IF querySelectorAll(el, selector) = <<>> THEN None
  ELSE Some(Head(querySelectorAll(el, selector)))

\* Element.getAttribute: the attribute's value or null
elGetAttribute(el, attr) ==
  IF attr \in DOMAIN el.attrs THEN Some(el.attrs[attr]) ELSE None

\* HTMLImageElement.src: the attribute's value, "" when the attribute is absent
imgSrc(el) == IF "src" \in DOMAIN el.attrs THEN el.attrs["src"] ELSE ""

\* ------------------------------------------------------- URL handling
\* the index of the first occurrence of p in s at or after from, 0 when none
RECURSIVE IndexFrom(_, _, _)
IndexFrom(s, p, from) ==
  IF from + Len(p) - 1 > Len(s) THEN 0
  ELSE IF SubSeq(s, from, from + Len(p) - 1) = p THEN from
  ELSE IndexFrom(s, p, from + 1)

IndexOf(s, p) == IndexFrom(s, p, 1)

\* String.prototype.replace with a string pattern: the first occurrence only
ReplaceFirst(s, pat, rep) ==
  IF IndexOf(s, pat) = 0 THEN s
  ELSE SubSeq(s, 1, IndexOf(s, pat) - 1) \o rep
         \o SubSeq(s, IndexOf(s, pat) + Len(pat), Len(s))

UpperChars == {"A", "B", "C", "D", "E", "F", "G", "H", "I", "J", "K", "L", "M",
               "N", "O", "P", "Q", "R", "S", "T", "U", "V", "W", "X", "Y", "Z"}
LowerChars == {"a", "b", "c", "d", "e", "f", "g", "h", "i", "j", "k", "l", "m",
               "n", "o", "p", "q", "r", "s", "t", "u", "v", "w", "x", "y", "z"}
DigitChars == {"0", "1", "2", "3", "4", "5", "6", "7", "8", "9"}
AlnumChars == UpperChars \cup LowerChars \cup DigitChars
\* the characters encodeURIComponent leaves as they are
UnreservedChars == AlnumChars \cup {"-", "_", ".", "!", "~", "*", "'", "(", ")"}

\* the percent-encoding of the reserved characters that occur in this model
PercentOf(c) ==
  CASE c = " " -> "%20"
    [] c = ":" -> "%3A"
    [] c = "/" -> "%2F"
    [] c = "&" -> "%26"
    [] c = "{" -> "%7B"
    [] c = "}" -> "%7D"
    [] OTHER -> "%3F"

RECURSIVE encodeURIComponent(_)
encodeURIComponent(s) ==
  IF Len(s) = 0 THEN ""
  ELSE (IF SubSeq(s, 1, 1) \in UnreservedChars THEN SubSeq(s, 1, 1)
        ELSE PercentOf(SubSeq(s, 1, 1)))
       \o encodeURIComponent(SubSeq(s, 2, Len(s)))

\* window.location.origin of a page at url: scheme://host
Origin(url) ==
  IF IndexOf(url, "://") = 0 THEN "null"
  ELSE IF IndexFrom(url, "/", IndexOf(url, "://") + 3) = 0 THEN url
  ELSE SubSeq(url, 1, IndexFrom(url, "/", IndexOf(url, "://") + 3) - 1)

\* ------------------------------------------- in-page extraction (search)
UpperStr == "ABCDEFGHIJKLMNOPQRSTUVWXYZ"
LowerStr == "abcdefghijklmnopqrstuvwxyz"

\* one character, lower-cased (the i flag of the two patterns)
LowerChar(c) ==
  IF c \in UpperChars
  THEN SubSeq(LowerStr, IndexOf(UpperStr, c), IndexOf(UpperStr, c)) ELSE c

RECURSIVE ToLower(_)
ToLower(s) ==
  IF Len(s) = 0 THEN ""
  ELSE LowerChar(SubSeq(s, 1, 1)) \o ToLower(SubSeq(s, 2, Len(s)))

CharAt(s, i) == IF i >= 1 /\ i <= Len(s) THEN SubSeq(s, i, i) ELSE ""

\* the last index of the longest run of [A-Z0-9] (i flag) starting at from
RECURSIVE AlnumRunEnd(_, _)
AlnumRunEnd(s, from) ==
  IF CharAt(s, from + 1) \in AlnumChars THEN AlnumRunEnd(s, from + 1) ELSE from

\* link.match(/\/p([A-Z0-9]+)/i): group 1 of the leftmost match, or null
RECURSIVE MatchSlashP(_, _)
MatchSlashP(s, from) ==
  IF from + 2 > Len(s) THEN None
  ELSE IF /\ CharAt(s, from) = "/"
          /\ LowerChar(CharAt(s, from + 1)) = "p"
          /\ CharAt(s, from + 2) \in AlnumChars
       THEN Some(SubSeq(s, from + 2, AlnumRunEnd(s, from + 2)))
       ELSE MatchSlashP(s, from + 1)

\* link.match(/product[\/\-]([A-Z0-9]+)/i): group 1 of the leftmost match, or null
RECURSIVE MatchProduct(_, _)
MatchProduct(s, from) ==
  IF from + 8 > Len(s) THEN None
  ELSE IF /\ ToLower(SubSeq(s, from, from + 6)) = "product"
          /\ CharAt(s, from + 7) \in {"/", "-"}
          /\ CharAt(s, from + 8) \in AlnumChars
       THEN Some(SubSeq(s, from + 8, AlnumRunEnd(s, from + 8)))
       ELSE MatchProduct(s, from + 1)

\* lines 133-137: the product code inferred from the link
productCodeOf(link) ==
  IF ~Truthy(link) THEN None
  ELSE IF MatchSlashP(Val(link), 1) # None THEN MatchSlashP(Val(link), 1)
  ELSE MatchProduct(Val(link), 1)

\* getTextContent of lines 103-106: trimmed text of the first match, or null
getTextContent(card, selector) ==
  IF querySelector(card, selector) = None THEN None
  ELSE Some(Trim(Val(querySelector(card, selector)).text))

\* getAttribute of lines 108-111
getAttribute(card, selector, attr) ==
  IF querySelector(card, selector) = None THEN None
  ELSE elGetAttribute(Val(querySelector(card, selector)), attr)

\* lines 117-120: src, else data-src when src is absent, empty or a data: image
imageOf(card, selectors) ==
  IF \/ ~Truthy(getAttribute(card, selectors.image, "src"))
     \/ Includes(Val(getAttribute(card, selectors.image, "src")), "data:image")
  THEN getAttribute(card, selectors.image, "data-src")
  ELSE getAttribute(card, selectors.image, "src")

\* lines 123-126: href, made absolute with the page's origin
linkOf(card, selectors, origin) ==
  IF /\ Truthy(getAttribute(card, selectors.link, "href"))
     /\ ~StartsWith(Val(getAttribute(card, selectors.link, "href")), "http")
  THEN Some(origin \o Val(getAttribute(card, selectors.link, "href")))
  ELSE getAttribute(card, selectors.link, "href")

\* lines 113-147: the record made from one card
productOf(card, selectors, origin) ==
  [productCode |-> productCodeOf(linkOf(card, selectors, origin)),
   title |-> getTextContent(card, selectors.title),
   brand |-> IF Truthy(selectors.brand)
             THEN getTextContent(card, Val(selectors.brand)) ELSE None,
   price |-> getTextContent(card, selectors.price),
   rating |-> IF Truthy(selectors.rating)
              THEN getTextContent(card, Val(selectors.rating)) ELSE None,
   image |-> imageOf(card, selectors),
   url |-> linkOf(card, selectors, origin)]

\* line 148 with the price forgotten
keepProduct_titleOnly(p) == Truthy(p.title)

\* line 148 with || for &&
keepProduct_either(p) == Truthy(p.title) \/ Truthy(p.price)

\* line 148: only products with a title and a price
keepProduct(p) == Truthy(p.title) /\ Truthy(p.price)

\* lines 99-149: the products of the page, in document order
extractProducts(doc, selectors, origin) ==
  SelectSeq([i \in 1..Len(querySelectorAll(doc, selectors.productCard)) |->
               productOf(querySelectorAll(doc, selectors.productCard)[i],
                         selectors, origin)],
            keepProduct)

\* --------------------------------- in-page extraction (product details)
\* getTextContent of lines 192-195, on the document
docTextContent(doc, selector) ==
  IF querySelector(doc, selector) = None THEN None
  ELSE Some(Trim(Val(querySelector(doc, selector)).text))

\* img.src || img.getAttribute('data-src')
imageSource(img) ==
  IF imgSrc(img) # "" THEN Some(imgSrc(img)) ELSE elGetAttribute(img, "data-src")

\* getAllImages of lines 202-205: every source found, in document order
getAllImages(doc, selector) ==
  LET srcs == [i \in 1..Len(querySelectorAll(doc, selector)) |->
                 imageSource(querySelectorAll(doc, selector)[i])]
      kept == SelectSeq(srcs, Truthy)
  IN [i \in 1..Len(kept) |-> Val(kept[i])]

\* lines 207-215: the fields read from a product page
detailOf(doc, selectors) ==
  [title |-> docTextContent(doc, selectors.title),
   price |-> docTextContent(doc, selectors.price),
   description |-> IF Truthy(selectors.description)
                   THEN docTextContent(doc, Val(selectors.description)) ELSE None,
   brand |-> IF Truthy(selectors.brand)
             THEN docTextContent(doc, Val(selectors.brand)) ELSE None,
   rating |-> IF Truthy(selectors.rating)
              THEN docTextContent(doc, Val(selectors.rating)) ELSE None,
   images |-> IF Truthy(selectors.images)
              THEN getAllImages(doc, Val(selectors.images)) ELSE <<>>,
   availability |-> IF Truthy(selectors.availability)
                    THEN docTextContent(doc, Val(selectors.availability)) ELSE None]

\* ------------------------------------------------------------ the cache
\* lines 32-34 with the query folded to lower case
getCacheKey_lower(siteConfig, query, page) ==
  siteConfig.name \o ":" \o ToLower(query) \o ":" \o ToString(page)

\* getCacheKey, lines 32-34
getCacheKey(siteConfig, query, page) ==
  siteConfig.name \o ":" \o query \o ":" \o ToString(page)

\* the Map without an entry: new Map(), and the Map after clear()
EmptyMap == <<>>

\* line 38 with the comparison taken inclusive
cacheFresh_inclusive(c, t, key) ==
  key \in DOMAIN c /\ t - c[key].timestamp <= cacheTimeout

\* line 38: the entry is there and younger than cacheTimeout
cacheFresh(c, t, key) ==
  key \in DOMAIN c /\ t - c[key].timestamp < cacheTimeout

\* getFromCache, lines 36-43: what it returns
getFromCache(c, t, key) ==
  IF cacheFresh(c, t, key) THEN Some(c[key].data) ELSE None

\* lines 36-43 with a hit renewing the entry's timestamp
getFromCacheMap_touch(c, t, key) ==
  IF cacheFresh(c, t, key) THEN [c EXCEPT ![key].timestamp = t]
  ELSE [k \in DOMAIN c \ {key} |-> c[k]]

\* getFromCache, lines 36-43: the Map it leaves (line 41 deletes on a miss)
getFromCacheMap(c, t, key) ==
  IF cacheFresh(c, t, key) THEN c ELSE [k \in DOMAIN c \ {key} |-> c[k]]

\* lines 45-50 with an entry that is there kept
setCache_ifAbsent(c, t, key, data) ==
  IF key \in DOMAIN c THEN c
  ELSE [k \in DOMAIN c \cup {key} |->
          IF k = key THEN [data |-> data, timestamp |-> t] ELSE c[k]]

\* setCache, lines 45-50: the Map it leaves
setCache(c, t, key, data) ==
  [k \in DOMAIN c \cup {key} |->
     IF k = key THEN [data |-> data, timestamp |-> t] ELSE c[k]]

\* lines 52-54 with the clear lost
clearCacheMap_kept(c) == c

\* clearCache, lines 52-54: the Map it leaves
clearCacheMap(c) == EmptyMap

\* lines 151-159: the result of a scrape
searchResult(siteConfig, query, page, products, t) ==
  [site |-> siteConfig.name, query |-> query, page |-> page,
   totalResults |-> Len(products), results |-> products,
   cached |-> FALSE, timestamp |-> toISOString(t)]

\* line 77 with the stored object returned as it is
cachedResult_asStored(data) == data

\* line 77: { ...cached, cached: true }
cachedResult(data) == [data EXCEPT !.cached = TRUE]

\* lines 218-223: the result of getProductDetails
detailResult(siteConfig, productUrl, product, t) ==
  [site |-> siteConfig.name, url |-> productUrl, title |-> product.title,
   price |-> product.price, description |-> product.description,
   brand |-> product.brand, rating |-> product.rating, images |-> product.images,
   availability |-> product.availability, timestamp |-> toISOString(t)]

\* line 168 with the cause thrown again as it came
scrapeError_bare(siteConfig, cause) == cause

\* line 168: the error search throws from its catch
scrapeError(siteConfig, cause) == "Failed to scrape " \o siteConfig.name \o ": " \o cause

\* line 227: the error getProductDetails throws from its catch
detailsError(cause) == "Failed to get product details: " \o cause

\* line 89: the URL search navigates to
searchUrlOf(siteConfig, query) ==
  ReplaceFirst(siteConfig.searchUrl, "{query}", encodeURIComponent(query))

\* ------------------------------------------------- inputs of the model
AcmeSelectors ==
  [productCard |-> ".card", title |-> ".t", price |-> ".p", image |-> "img",
   link |-> "a", brand |-> None, rating |-> None]
AltSelectors ==
  [productCard |-> ".item", title |-> "h2", price |-> ".cost", image |-> "img",
   link |-> "a", brand |-> Some(".b"), rating |-> None]
\* the configuration of the end-to-end scenario, and one of the same name with
\* another URL template and other selectors
Acme ==
  [name |-> "Acme", searchUrl |-> "https://acme.test/s?q={query}",
   selectors |-> AcmeSelectors]
AcmeAlt ==
  [name |-> "Acme", searchUrl |-> "https://alt.acme.test/find/{query}",
   selectors |-> AltSelectors]
NoConfig == [name |-> "", searchUrl |-> "", selectors |-> AcmeSelectors]

\* the searches callers make: <<siteConfig, query, page>>
SearchInputs ==
  {<<Acme, "drill", 1>>, <<AcmeAlt, "Drill", 2>>}
\* searches of one name, query and page under two configurations, and one
\* whose query differs in letter case
KeyInputs ==
  {<<Acme, "drill", 1>>, <<AcmeAlt, "drill", 1>>, <<Acme, "Drill", 1>>}
\* searches of one configuration for two pages of one query, and for a query
\* with a blank
PageInputs ==
  {<<Acme, "drill", 1>>, <<Acme, "drill", 2>>, <<Acme, "cordless drill", 1>>}
\* searches for one request identity
SameKeyInputs == {<<Acme, "drill", 1>>}

DetailSelectors ==
  [title |-> "h1", price |-> ".price", description |-> None, brand |-> None,
   rating |-> None, images |-> Some("img.gallery"), availability |-> None]
\* the product pages callers ask for: <<siteConfig, productUrl>>
DetailInputs == {<<Acme, "https://acme.test/p60545">>}

Text(t) == Elem(t, NoAttrs, NoSub)
Img(attrs) == Elem("", attrs, NoSub)
Anchor(href) == Elem("", ("href" :> href), NoSub)

\* a card with title, price, a placeholder src with a data-src, a relative link
CardFull ==
  Elem("", NoAttrs,
       (".t" :> <<Text(" Cordless Drill ")>>) @@ (".p" :> <<Text("59.99")>>)
       @@ ("img" :> <<Img(("src" :> "data:image/gif;base64,R0")
                          @@ ("data-src" :> "https://cdn.acme.test/d1.jpg"))>>)
       @@ ("a" :> <<Anchor("/p60545")>>))
\* a card with a title and no price
CardTitleOnly ==
  Elem("", NoAttrs,
       (".t" :> <<Text("Hammer")>>) @@ ("a" :> <<Anchor("/product/AB12")>>))
\* a card with a price and no title
CardPriceOnly == Elem("", NoAttrs, (".p" :> <<Text("9.50")>>))
\* a card whose title is blank
CardBlankTitle ==
  Elem("", NoAttrs, (".t" :> <<Text("  ")>>) @@ (".p" :> <<Text("1.00")>>))
\* a card of the other markup
CardItem ==
  Elem("", NoAttrs,
       ("h2" :> <<Text("Saw")>>) @@ (".cost" :> <<Text("12.00")>>)
       @@ (".b" :> <<Text("Acme Tools")>>)
       @@ ("img" :> <<Img(("src" :> "https://cdn.acme.test/s.jpg"))>>)
       @@ ("a" :> <<Anchor("https://alt.acme.test/shop/item")>>))

\* cards of the other markup whose links end in /p<code> and /product/<code>
CardItemCode ==
  Elem("", NoAttrs,
       ("h2" :> <<Text("Plane")>>) @@ (".cost" :> <<Text("31.00")>>)
       @@ ("a" :> <<Anchor("https://shop.example/p7X42AB")>>))
CardItemProduct ==
  Elem("", NoAttrs,
       ("h2" :> <<Text("Chisel")>>) @@ (".cost" :> <<Text("7.25")>>)
       @@ ("a" :> <<Anchor("https://shop.example/product/AB12")>>))
\* a card of the other markup without a link
CardItemNoLink ==
  Elem("", NoAttrs, ("h2" :> <<Text("Vice")>>) @@ (".cost" :> <<Text("44.00")>>))

\* a page with no product card
PageNoCards == Elem("", NoAttrs, NoSub)
\* the page of the end-to-end scenario, which is also a product page
PageMixed ==
  Elem("", NoAttrs,
       (".card" :> <<CardFull, CardTitleOnly>>)
       @@ (".item" :> <<CardItem, CardItemCode, CardItemProduct, CardItemNoLink>>)
       @@ ("h1" :> <<Text("Cordless Drill")>>) @@ (".price" :> <<Text("59.99")>>)
       @@ ("img.gallery" :> <<Img(("src" :> "https://cdn.acme.test/1.jpg")),
                              Img(("data-src" :> "https://cdn.acme.test/2.jpg")),
                              Img(("src" :> "https://cdn.acme.test/3.jpg"))>>))
\* a page whose cards all lack a title or a price
PageNoneQualify ==
  Elem("", NoAttrs, (".card" :> <<CardTitleOnly, CardPriceOnly, CardBlankTitle>>))

\* the pages the environment may show
Docs == {PageNoCards, PageMixed, PageNoneQualify}

\* the messages of the driver's rejections
LaunchCause == "Failed to launch the browser process!"
NewPageCause == "Protocol error (Target.createTarget): Target closed"
ConfigureCause == "Protocol error (Emulation.setDeviceMetricsOverride): Target closed"
GotoCause == "Navigation timeout of 30000 ms exceeded"
WaitCause(selector) == "Waiting for selector " \o selector \o " failed: 15000ms exceeded"
EvaluateCause == "Execution context was destroyed"

\* ------------------------------------------------------------- state
VARIABLES
  browser,   \* this.browser: 0 is null, else the call that launched the process
  procs,     \* the browser process each call launched: "none" when it launched
             \* none, else "running", "closing" or "closed"
  cache,     \* this.cache: key -> [data, timestamp]
  now,       \* Date.now()
  pages,     \* the page context each call opened, if it opened one
  req,       \* the calls made on the scraper, each with its position
  cleared,   \* keys that had an entry at the latest clearCache, not looked up since
  restored,  \* those of cleared under which a result was stored since
  live,      \* calls whose stored result no clearCache followed
  latest     \* those of live whose key no later call stored under

vars == <<browser, procs, cache, now, pages, req, cleared, restored, live, latest>>

Reqs == DOMAIN req

IdleReq ==
  [op |-> "idle", pc |-> "idle", siteConfig |-> NoConfig, query |-> "", page |-> 0,
   productUrl |-> "", cacheKey |-> "", onBrowser |-> 0,
   result |-> None, error |-> None, fault |-> "", hit |-> FALSE, expired |-> FALSE,
   afterClear |-> FALSE, afterRestore |-> FALSE, storedAt |-> -1, prior |-> {},
   priorLatest |-> {}, servedBy |-> 0, changed |-> FALSE]

\* the page context of a call that has opened none
NoPage ==
  [browser |-> 0, opened |-> FALSE, open |-> FALSE, closeCalls |-> 0,
   navigations |-> <<>>, doc |-> PageNoCards]

\* the state after the constructor, lines 4-8, with n calls to come
InitWith(n) ==
  /\ browser = 0
  /\ procs = [r \in 1..n |-> "none"]
  /\ cache = EmptyMap
  /\ now = 0
  /\ pages = [r \in 1..n |-> NoPage]
  /\ req = [r \in 1..n |-> IdleReq]
  /\ cleared = {}
  /\ restored = {}
  /\ live = {}
  /\ latest = {}

Init == InitWith(MaxReq)

\* a call takes the lowest free number
CanCall(r) ==
  req[r].op = "idle" /\ \A q \in 1..(r - 1) : req[q].op # "idle"

SameRequest(r, siteConfig, query, page) ==
  /\ req[r].op = "search"
  /\ req[r].siteConfig.name = siteConfig.name
  /\ req[r].query = query
  /\ req[r].page = page

\* the call whose result object the entry of key holds (line 162 stores the
\* object itself), 0 when there is no entry or the call is forgotten
entryOwner(key) ==
  IF key \in DOMAIN cache /\ \E q \in latest : req[q].cacheKey = key
  THEN CHOOSE q \in latest : req[q].cacheKey = key
  ELSE 0

\* `await this.init()` (lines 80, 181) seen from the caller, up to the first
\* await that waits for the driver: with no browser, init waits for
\* puppeteer.launch (line 12); with one, init returns at once and the caller
\* goes on to this.browser.newPage() (lines 81, 182) before any other call runs
afterInit(called) ==
  IF browser = 0 THEN [called EXCEPT !.pc = "launch"]
  ELSE [called EXCEPT !.pc = "newPage", !.onBrowser = browser]

\* the clock advances
Tick ==
  /\ now < MaxTicks * TickMs
  /\ now' = now + TickMs
  /\ UNCHANGED <<browser, procs, cache, pages, req, cleared, restored, live, latest>>

\* clearCache(), lines 52-54
ClearCache ==
  /\ cache' = clearCacheMap(cache)
  /\ cleared' = DOMAIN cache
  /\ restored' = {}
  /\ live' = {}
  /\ latest' = {}
  /\ UNCHANGED <<browser, procs, now, pages, req>>

\* search(siteConfig, query, page), lines 72-81: the cache check, and on a miss
\* init() and what follows it up to the first wait for the driver
SearchCall(r, siteConfig, query, page) ==
  /\ CanCall(r)
  /\ LET cacheKey == getCacheKey(siteConfig, query, page)
         cached == getFromCache(cache, now, cacheKey)
         called == [IdleReq EXCEPT !.op = "search", !.siteConfig = siteConfig,
                      !.query = query, !.page = page, !.cacheKey = cacheKey,
                      !.expired = cacheKey \in DOMAIN cache /\ ~IsSome(cached),
                      !.afterClear = cacheKey \in cleared,
                      !.afterRestore = cacheKey \in restored,
                      !.servedBy = IF IsSome(cached) THEN entryOwner(cacheKey) ELSE 0,
                      !.prior = {q \in live : /\ SameRequest(q, siteConfig, query, page)
                                              /\ req[q].pc = "done"
                                              /\ now - req[q].storedAt < cacheTimeout},
                      !.priorLatest = {q \in latest :
                                         /\ SameRequest(q, siteConfig, query, page)
                                         /\ req[q].pc = "done"
                                         /\ now - req[q].storedAt < cacheTimeout}]
     IN /\ cache' = getFromCacheMap(cache, now, cacheKey)
        /\ cleared' = cleared \ {cacheKey}
        /\ restored' = restored \ {cacheKey}
        /\ req' = [req EXCEPT ![r] =
                     IF IsSome(cached)
                     THEN [called EXCEPT !.pc = "done", !.hit = TRUE,
                             !.result = Some(cachedResult(Val(cached)))]
                     ELSE afterInit(called)]
  /\ UNCHANGED <<browser, procs, now, pages, live, latest>>

\* getProductDetails(siteConfig, productUrl, detailSelectors), lines 180-182:
\* init() and what follows it up to the first wait for the driver
DetailsCall(r, siteConfig, productUrl) ==
  /\ CanCall(r)
  /\ req' = [req EXCEPT ![r] =
               afterInit([IdleReq EXCEPT !.op = "details", !.siteConfig = siteConfig,
                            !.productUrl = productUrl])]
  /\ UNCHANGED <<browser, procs, cache, now, pages, cleared, restored, live, latest>>

\* init() called on its own, lines 10-23, up to its await
InitCall(r) ==
  /\ CanCall(r)
  /\ req' = [req EXCEPT ![r] =
               [IdleReq EXCEPT !.op = "init",
                               !.pc = IF browser = 0 THEN "launch" ELSE "done"]]
  /\ UNCHANGED <<browser, procs, cache, now, pages, cleared, restored, live, latest>>

\* line 12: puppeteer.launch resolves and this.browser is assigned; a search or
\* a getProductDetails goes on to this.browser.newPage() (lines 81, 182)
LaunchResolve(r) ==
  /\ req[r].pc = "launch"
  /\ procs' = [procs EXCEPT ![r] = "running"]
  /\ browser' = r
  /\ req' = [req EXCEPT ![r] =
               IF req[r].op = "init" THEN [@ EXCEPT !.pc = "done"]
               ELSE [@ EXCEPT !.pc = "newPage", !.onBrowser = r]]
  /\ UNCHANGED <<cache, now, pages, cleared, restored, live, latest>>

\* line 12: puppeteer.launch rejects; init has no catch, and the await of init
\* (lines 80, 181) is outside the try
LaunchReject(r) ==
  /\ req[r].pc = "launch"
  /\ req' = [req EXCEPT ![r].pc = "done", ![r].fault = "launch",
                        ![r].error = Some(LaunchCause)]
  /\ UNCHANGED <<browser, procs, cache, now, pages, cleared, restored, live, latest>>

\* lines 81 / 182: newPage resolves with a page context of the browser it was
\* called on
NewPageResolve(r) ==
  /\ req[r].pc = "newPage"
  /\ procs[req[r].onBrowser] # "closed"
  /\ pages' = [pages EXCEPT ![r] = [NoPage EXCEPT !.browser = req[r].onBrowser,
                                                   !.opened = TRUE, !.open = TRUE]]
  /\ req' = [req EXCEPT ![r].pc = "configure"]
  /\ UNCHANGED <<browser, procs, cache, now, cleared, restored, live, latest>>

\* lines 81 / 182: newPage rejects, outside the try
NewPageReject(r) ==
  /\ req[r].pc = "newPage"
  /\ req' = [req EXCEPT ![r].pc = "done", ![r].fault = "newPage",
                        ![r].error = Some(NewPageCause)]
  /\ UNCHANGED <<browser, procs, cache, now, pages, cleared, restored, live, latest>>

\* what the catch of the running function throws for a cause
\* (line 168 for search, line 227 for getProductDetails)
catchError(r, cause) ==
  IF req[r].op = "search" THEN scrapeError(req[r].siteConfig, cause)
  ELSE detailsError(cause)

\* the request after a step inside the try rejected: the catch wraps the cause
\* (lines 166-168, 225-227) and the finally has called browserPage.close()
thrown(r, step, cause) ==
  [req EXCEPT ![r].pc = "closing", ![r].fault = step,
              ![r].error = Some(catchError(r, cause))]

\* the finally, lines 169-170 and 228-229: browserPage.close() is called
closeCalled(r) == [pages EXCEPT ![r].closeCalls = @ + 1]

\* lines 85-86 / 185-186: setViewport and setUserAgent resolve
Configure(r) ==
  /\ req[r].pc = "configure"
  /\ pages[r].open
  /\ req' = [req EXCEPT ![r].pc = "goto"]
  /\ UNCHANGED <<browser, procs, cache, now, pages, cleared, restored, live, latest>>

\* lines 85-86 / 185-186: setViewport or setUserAgent rejects
ConfigureReject(r) ==
  /\ req[r].pc = "configure"
  /\ req' = thrown(r, "configure", ConfigureCause)
  /\ pages' = closeCalled(r)
  /\ UNCHANGED <<browser, procs, cache, now, cleared, restored, live, latest>>

\* lines 89 and 92 with the page number put into the URL
targetUrl_paged(r) ==
  IF req[r].op = "search"
  THEN searchUrlOf(req[r].siteConfig, req[r].query) \o "&page="
         \o ToString(req[r].page)
  ELSE req[r].productUrl

\* the URL the call navigates to (lines 89 and 92, line 188)
targetUrl(r) ==
  IF req[r].op = "search" THEN searchUrlOf(req[r].siteConfig, req[r].query)
  ELSE req[r].productUrl

\* lines 92 / 188 with the wait for the product card left out
Goto_noWait(r) ==
  /\ req[r].pc = "goto"
  /\ pages[r].open
  /\ \E d \in Docs :
       pages' = [pages EXCEPT ![r].navigations = Append(@, targetUrl(r)),
                              ![r].doc = d]
  /\ req' = [req EXCEPT ![r].pc = "settle"]
  /\ UNCHANGED <<browser, procs, cache, now, cleared, restored, live, latest>>

\* lines 92 / 188: browserPage.goto resolves; the environment chooses the page
Goto(r) ==
  /\ req[r].pc = "goto"
  /\ pages[r].open
  /\ \E d \in Docs :
       pages' = [pages EXCEPT ![r].navigations =
                                Append(@, targetUrl(r)),
                              ![r].doc = d]
  /\ req' = [req EXCEPT ![r].pc = IF req[r].op = "search"
                                  THEN "waitForSelector" ELSE "settle"]
  /\ UNCHANGED <<browser, procs, cache, now, cleared, restored, live, latest>>

\* lines 92 / 188: browserPage.goto rejects
GotoReject(r) ==
  /\ req[r].pc = "goto"
  /\ req' = thrown(r, "goto", GotoCause)
  /\ pages' = [closeCalled(r) EXCEPT ![r].navigations =
                                       Append(@, targetUrl(r))]
  /\ UNCHANGED <<browser, procs, cache, now, cleared, restored, live, latest>>

\* whether line 95 finds an element: the page is there and a card matches
cardPresent(r) ==
  /\ pages[r].open
  /\ querySelectorAll(pages[r].doc,
                      req[r].siteConfig.selectors.productCard) # <<>>

\* line 95: waitForSelector(productCard) resolves, an element being there
WaitForSelector(r) ==
  /\ req[r].pc = "waitForSelector"
  /\ cardPresent(r)
  /\ req' = [req EXCEPT ![r].pc = "settle"]
  /\ UNCHANGED <<browser, procs, cache, now, pages, cleared, restored, live, latest>>

\* line 95: waitForSelector(productCard) rejects at its timeout, no element
\* having appeared
WaitForSelectorReject(r) ==
  /\ req[r].pc = "waitForSelector"
  /\ ~cardPresent(r)
  /\ req' = thrown(r, "waitForSelector",
                   WaitCause(req[r].siteConfig.selectors.productCard))
  /\ pages' = closeCalled(r)
  /\ UNCHANGED <<browser, procs, cache, now, cleared, restored, live, latest>>

\* lines 96 / 189: the settle delay, during which the page may render anew
Settle(r) ==
  /\ req[r].pc = "settle"
  /\ \E d \in Docs : pages' = [pages EXCEPT ![r].doc = d]
  /\ req' = [req EXCEPT ![r].pc = "evaluate"]
  /\ UNCHANGED <<browser, procs, cache, now, cleared, restored, live, latest>>

\* the products line 99 receives from the page
productsOf(r) ==
  extractProducts(pages[r].doc, req[r].siteConfig.selectors,
                  Origin(targetUrl(r)))

\* lines 99-164: evaluate resolves; the result is built, stored and returned,
\* and the finally calls browserPage.close()
EvaluateSearch(r) ==
  /\ req[r].pc = "evaluate"
  /\ req[r].op = "search"
  /\ pages[r].open
  /\ LET result == searchResult(req[r].siteConfig, req[r].query, req[r].page,
                                productsOf(r), now)
     IN /\ cache' = setCache(cache, now, req[r].cacheKey, result)
        /\ req' = [req EXCEPT ![r].pc = "closing", ![r].result = Some(result),
                              ![r].storedAt = now]
  /\ restored' = restored \cup (cleared \cap {req[r].cacheKey})
  /\ live' = live \cup {r}
  /\ latest' = {q \in latest : req[q].cacheKey # req[r].cacheKey} \cup {r}
  /\ pages' = closeCalled(r)
  /\ UNCHANGED <<browser, procs, now, cleared>>

\* lines 191-223 with the result stored in the cache under the product URL
EvaluateDetails_caching(r) ==
  /\ req[r].pc = "evaluate"
  /\ req[r].op = "details"
  /\ pages[r].open
  /\ LET result == detailResult(req[r].siteConfig, req[r].productUrl,
                                detailOf(pages[r].doc, DetailSelectors), now)
     IN /\ req' = [req EXCEPT ![r].pc = "closing", ![r].result = Some(result)]
        /\ cache' = setCache(cache, now, req[r].productUrl, result)
  /\ pages' = closeCalled(r)
  /\ UNCHANGED <<browser, procs, now, cleared, restored, live, latest>>

\* lines 191-223: evaluate resolves; the result is built and returned, and the
\* finally calls browserPage.close()
EvaluateDetails(r) ==
  /\ req[r].pc = "evaluate"
  /\ req[r].op = "details"
  /\ pages[r].open
  /\ req' = [req EXCEPT ![r].pc = "closing",
               ![r].result = Some(detailResult(req[r].siteConfig, req[r].productUrl,
                                    detailOf(pages[r].doc,
                                             DetailSelectors), now))]
  /\ pages' = closeCalled(r)
  /\ UNCHANGED <<browser, procs, cache, now, cleared, restored, live, latest>>

\* lines 99 / 191 with the catch storing an empty result before it throws
EvaluateReject_storing(r) ==
  /\ req[r].pc = "evaluate"
  /\ req' = thrown(r, "evaluate", EvaluateCause)
  /\ cache' = setCache(cache, now, req[r].cacheKey,
                       searchResult(req[r].siteConfig, req[r].query, req[r].page,
                                    <<>>, now))
  /\ pages' = closeCalled(r)
  /\ UNCHANGED <<browser, procs, now, cleared, restored, live, latest>>

\* lines 99 / 191: evaluate rejects
EvaluateReject(r) ==
  /\ req[r].pc = "evaluate"
  /\ req' = thrown(r, "evaluate", EvaluateCause)
  /\ pages' = closeCalled(r)
  /\ UNCHANGED <<browser, procs, cache, now, cleared, restored, live, latest>>

\* lines 170 / 229 with the page context left as it was
closedPage_leftOpen(pg) == pg

\* the page context after browserPage.close() resolved: closed, its document gone
closedPage(pg) == [pg EXCEPT !.open = FALSE, !.doc = PageNoCards]

\* lines 170 / 229: browserPage.close() resolves, and then the result or the
\* error reaches the caller
PageClosed(r) ==
  /\ req[r].pc = "closing"
  /\ pages' = [pages EXCEPT ![r] = closedPage(@)]
  /\ req' = [req EXCEPT ![r].pc = "done"]
  /\ UNCHANGED <<browser, procs, cache, now, cleared, restored, live, latest>>

\* close(), lines 25-27, up to its await
CloseCall(r) ==
  /\ CanCall(r)
  /\ IF browser = 0
     THEN /\ req' = [req EXCEPT ![r] = [IdleReq EXCEPT !.op = "close", !.pc = "done"]]
          /\ UNCHANGED procs
     ELSE /\ req' = [req EXCEPT ![r] = [IdleReq EXCEPT !.op = "close",
                                          !.pc = "closeWait", !.onBrowser = browser]]
          /\ procs' = [procs EXCEPT ![browser] = "closing"]
  /\ UNCHANGED <<browser, cache, now, pages, cleared, restored, live, latest>>

\* lines 27-28: browser.close() resolves, the pages of that browser are gone,
\* and this.browser = null
CloseResolve(r) ==
  /\ req[r].pc = "closeWait"
  /\ procs' = [procs EXCEPT ![req[r].onBrowser] = "closed"]
  /\ pages' = [p \in DOMAIN pages |->
                 IF pages[p].opened /\ pages[p].browser = req[r].onBrowser
                 THEN [pages[p] EXCEPT !.open = FALSE] ELSE pages[p]]
  /\ browser' = 0
  /\ req' = [req EXCEPT ![r].pc = "done"]
  /\ UNCHANGED <<cache, now, cleared, restored, live, latest>>

\* a step of a search that is under way
SearchStep(r) ==
  \/ LaunchResolve(r)
  \/ LaunchReject(r)
  \/ NewPageResolve(r)
  \/ NewPageReject(r)
  \/ Configure(r)
  \/ ConfigureReject(r)
  \/ Goto(r)
  \/ GotoReject(r)
  \/ WaitForSelector(r)
  \/ WaitForSelectorReject(r)
  \/ Settle(r)
  \/ EvaluateSearch(r)
  \/ EvaluateReject(r)
  \/ PageClosed(r)

Next ==
  \/ Tick
  \/ ClearCache
  \/ \E r \in Reqs, in \in SearchInputs : SearchCall(r, in[1], in[2], in[3])
  \/ \E r \in Reqs, in \in DetailInputs : DetailsCall(r, in[1], in[2])
  \/ \E r \in Reqs : InitCall(r)
  \/ \E r \in Reqs : CloseCall(r)
  \/ \E r \in Reqs : SearchStep(r)
  \/ \E r \in Reqs : EvaluateDetails(r)
  \/ \E r \in Reqs : CloseResolve(r)

\* every interleaving of MaxReq calls
Spec == Init /\ [][Next]_vars

\* the caller is done with a finished call, and its number is free for the
\* next call; the browser process the call launched stays
Forget(r) ==
  /\ req[r].pc = "done"
  /\ req' = [q \in Reqs |->
               IF q = r THEN IdleReq
               ELSE [req[q] EXCEPT !.prior = @ \ {r}, !.priorLatest = @ \ {r},
                                   !.servedBy = IF @ = r THEN 0 ELSE @]]
  /\ pages' = [pages EXCEPT ![r] = NoPage]
  /\ live' = live \ {r}
  /\ latest' = latest \ {r}
  /\ UNCHANGED <<browser, procs, cache, now, cleared, restored>>

NextSearches ==
  \/ Tick
  \/ ClearCache
  \/ \E r \in Reqs, in \in SameKeyInputs : SearchCall(r, in[1], in[2], in[3])
  \/ \E r \in Reqs : SearchStep(r)
  \/ \E r \in Reqs : Forget(r)

\* searches for one request identity, one after another or overlapping, MaxReq
\* of them under way or not yet forgotten at a time
SpecSearches == Init /\ [][NextSearches]_vars

\* the call that made the results array the caller of r holds: line 77 copies
\* the fields of the stored object, and so its reference to the array
arrayOf(r) == IF req[r].hit THEN req[r].servedBy ELSE r

\* the object search r returned is the object the cache entry holds: lines 162
\* and 164 store and return the same `result`
objectInCache(r) ==
  ~req[r].hit /\ entryOwner(req[r].cacheKey) = r

\* the results array search r returned is the array of the stored object
arrayInCache(r) ==
  arrayOf(r) # 0 /\ entryOwner(req[r].cacheKey) = arrayOf(r)

\* what a write by the caller of r to the object it was given does to the Map:
\* `result.site = ''` reaches the stored object when it is that object,
\* `result.results.length = 0` when the array is the stored object's array
changedMap(r, write) ==
  IF write = "site" /\ objectInCache(r)
  THEN [cache EXCEPT ![req[r].cacheKey].data.site = ""]
  ELSE IF write = "results" /\ arrayInCache(r)
  THEN [cache EXCEPT ![req[r].cacheKey].data.results = <<>>]
  ELSE cache

\* the caller of a finished search writes to the result it was given
CallerChanges(r, write) ==
  /\ req[r].op = "search"
  /\ req[r].pc = "done"
  /\ IsSome(req[r].result)
  /\ ~req[r].changed
  /\ req' = [req EXCEPT ![r].changed = TRUE]
  /\ cache' = changedMap(r, write)
  /\ UNCHANGED <<browser, procs, now, pages, cleared, restored, live, latest>>

NextCallers ==
  \/ Tick
  \/ ClearCache
  \/ \E r \in Reqs, in \in SameKeyInputs : SearchCall(r, in[1], in[2], in[3])
  \/ \E r \in Reqs : SearchStep(r)
  \/ \E r \in Reqs, write \in {"site", "results"} : CallerChanges(r, write)

\* searches for one request identity whose callers write to what they get
SpecCallers == Init /\ [][NextCallers]_vars

NextKeys ==
  \/ Tick
  \/ ClearCache
  \/ \E r \in Reqs, in \in KeyInputs : SearchCall(r, in[1], in[2], in[3])
  \/ \E r \in Reqs : SearchStep(r)

\* searches that agree or differ in configuration and in the case of the query
SpecKeys == Init /\ [][NextKeys]_vars

NextPages ==
  \/ Tick
  \/ ClearCache
  \/ \E r \in Reqs, in \in PageInputs : SearchCall(r, in[1], in[2], in[3])
  \/ \E r \in Reqs : SearchStep(r)

\* searches of one configuration that differ in page or in query
SpecPages == Init /\ [][NextPages]_vars

NextShutdown ==
  \/ \E r \in Reqs : InitCall(r)
  \/ \E r \in Reqs, in \in DetailInputs : DetailsCall(r, in[1], in[2])
  \/ \E r \in Reqs : CloseCall(r)
  \/ \E r \in Reqs : LaunchResolve(r)
  \/ \E r \in Reqs : LaunchReject(r)
  \/ \E r \in Reqs : NewPageResolve(r)
  \/ \E r \in Reqs : NewPageReject(r)
  \/ \E r \in Reqs : ConfigureReject(r)
  \/ \E r \in Reqs : PageClosed(r)
  \/ \E r \in Reqs : CloseResolve(r)

\* init, getProductDetails as far as its page context, and close, one call
\* more than MaxReq, in every interleaving
SpecShutdown == InitWith(MaxReq + 1) /\ [][NextShutdown]_vars

\* ===================================================== the properties

\* the fields of a result that a cached copy shares with the fresh one
SameData(a, b) ==
  /\ a.results = b.results
  /\ a.totalResults = b.totalResults
  /\ a.site = b.site
  /\ a.query = b.query
  /\ a.page = b.page
  /\ a.timestamp = b.timestamp

\* search r2 was answered from the cache with what search r1 fetched
ServedFrom(r2, r1) ==
  /\ IsSome(req[r1].result)
  /\ ~Val(req[r1].result).cached
  /\ req[r2].hit
  /\ IsSome(req[r2].result)
  /\ Val(req[r2].result).cached
  /\ SameData(Val(req[r2].result), Val(req[r1].result))

\* C1, as claimed: a search called after a search for the same (name, query,
\* page) fetched its result, within the hour and with no clearCache in
\* between, returns cached:true with the results, totalResults, site, query,
\* page and timestamp of the first, which returned cached:false.
C1_AsClaimed ==
  \A r2 \in Reqs : \A r1 \in req[r2].prior : ServedFrom(r2, r1)

\* C1, amended: the same, provided no other search stored a result under the
\* key between the first search's store and the second call.
C1_CachedRepeat ==
  \A r2 \in Reqs : \A r1 \in req[r2].priorLatest : ServedFrom(r2, r1)

\* C1: a second search served from the cache half an hour after the first
C1_Witness ==
  \E r2 \in Reqs : \E r1 \in req[r2].priorLatest :
    /\ req[r2].hit
    /\ req[r1].storedAt < now
    /\ Val(req[r2].result).totalResults > 0

\* C2: the lookup at the start of search returns the stored data only when an
\* entry for the key exists and is younger than one hour; in every other case
\* it returns absent, the cache holds no entry for the key afterwards, and a
\* lookup that follows at once misses too.
C2_GetFromCache ==
  [][\A r \in Reqs :
       (req[r].op = "idle" /\ req'[r].op = "search") =>
         LET key == req'[r].cacheKey
             young == key \in DOMAIN cache /\ now - cache[key].timestamp < 3600000
         IN /\ req'[r].hit <=> young
            /\ young => /\ Val(req'[r].result) = [cache[key].data EXCEPT !.cached = TRUE]
                        /\ cache' = cache
            /\ ~young => /\ req'[r].result = None
                         /\ key \notin DOMAIN cache'
                         /\ getFromCache(cache', now', key) = None
                         /\ \A k \in DOMAIN cache \ {key} :
                              k \in DOMAIN cache' /\ cache'[k] = cache[k]]_vars

\* C2: a lookup found an entry exactly one hour old, missed and removed it
C2_Witness ==
  \E r \in Reqs :
    /\ req[r].op = "search"
    /\ req[r].expired
    /\ ~req[r].hit
    /\ now = cacheTimeout
    /\ req[r].cacheKey \notin DOMAIN cache

\* C3, as claimed: the first lookup of a key after a clearCache that dropped
\* the key's entry is a miss, whatever searches were in flight.
C3_AsClaimed ==
  \A r \in Reqs : (req[r].op = "search" /\ req[r].afterClear) => ~req[r].hit

\* C3, amended: the first lookup of a key after a clearCache that dropped the
\* key's entry is a miss, provided no search stored a result under the key
\* between the clear and the lookup.
C3_ClearThenMiss ==
  \A r \in Reqs :
    (req[r].op = "search" /\ req[r].afterClear /\ ~req[r].afterRestore) => ~req[r].hit

\* C3: a search looked its key up after a clear that dropped it, and missed
C3_Witness ==
  \E r \in Reqs :
    /\ req[r].op = "search"
    /\ req[r].afterClear
    /\ ~req[r].afterRestore
    /\ ~req[r].hit

\* C4: the page context of a search or getProductDetails call is closed by
\* one call of close, on every exit path, before the result or the error
\* reaches the caller; no finished call leaves a page context open.
C4_PageClosedOnce ==
  \A r \in Reqs :
    req[r].op \in {"search", "details"} =>
      /\ pages[r].closeCalls <= 1
      /\ ~pages[r].opened => pages[r].closeCalls = 0
      /\ (pages[r].opened /\ req[r].pc = "closing") => pages[r].closeCalls = 1
      /\ (pages[r].opened /\ req[r].pc = "done") =>
           pages[r].closeCalls = 1 /\ ~pages[r].open

\* C4: a search and a getProductDetails call are done, one with a result and
\* one with an evaluation failure, each with its page closed once
C4_Witness ==
  \E r, q \in Reqs :
    /\ req[r].pc = "done" /\ req[r].fault = "evaluate"
    /\ pages[r].opened /\ pages[r].closeCalls = 1 /\ ~pages[r].open
    /\ req[q].pc = "done" /\ req[q].fault = "" /\ IsSome(req[q].result)
    /\ pages[q].opened /\ pages[q].closeCalls = 1 /\ ~pages[q].open

\* C5, as claimed: with no close() called, at most one browser process is
\* ever launched, and a running process is the one the shared handle
\* references.
C5_AsClaimed ==
  (\A r \in Reqs : req[r].op # "close") =>
    /\ Cardinality({p \in DOMAIN procs : procs[p] # "none"}) <= 1
    /\ \A p \in DOMAIN procs : procs[p] = "running" => browser = p

\* C6, as claimed: every error a search throws has the message
\* 'Failed to scrape <site name>: <cause>'.
C6_AsClaimed ==
  \A r \in Reqs :
    (req[r].op = "search" /\ IsSome(req[r].error)) =>
      /\ StartsWith(Val(req[r].error),
                    "Failed to scrape " \o req[r].siteConfig.name \o ": ")
      /\ Len(Val(req[r].error)) >
           Len("Failed to scrape " \o req[r].siteConfig.name \o ": ")

\* the driver's message for the step of r that failed
FaultCause(r) ==
  CASE req[r].fault = "goto" -> GotoCause
    [] req[r].fault = "waitForSelector" ->
         WaitCause(req[r].siteConfig.selectors.productCard)
    [] req[r].fault = "evaluate" -> EvaluateCause
    [] OTHER -> ""

HasText(el, selector) ==
  /\ selector \in DOMAIN el.sub
  /\ el.sub[selector] # <<>>
  /\ Trim(el.sub[selector][1].text) # ""

\* el has an element matching selector
HasElement(el, selector) ==
  selector \in DOMAIN el.sub /\ el.sub[selector] # <<>>

\* the cards of the page r has loaded
CardsOf(r) ==
  IF HasElement(pages[r].doc, req[r].siteConfig.selectors.productCard)
  THEN pages[r].doc.sub[req[r].siteConfig.selectors.productCard] ELSE <<>>

\* the cards of the page r has loaded that have a title and a price
QualifyingCards(r) ==
  {i \in 1..Len(CardsOf(r)) :
     /\ HasText(CardsOf(r)[i], req[r].siteConfig.selectors.title)
     /\ HasText(CardsOf(r)[i], req[r].siteConfig.selectors.price)}

\* r is a search that has run to its end on a page that is still there
RanOnPage(r) ==
  /\ req[r].op = "search"
  /\ req[r].pc = "closing"
  /\ pages[r].open

\* the successful empty result
EmptySuccess(r) ==
  /\ req[r].error = None
  /\ IsSome(req[r].result)
  /\ Val(req[r].result).totalResults = 0
  /\ Val(req[r].result).results = <<>>

\* C9, as claimed: a search whose page has no qualifying card, be it for
\* having no productCard element or for cards lacking title or price, succeeds
\* with totalResults 0 and empty results.
C9_AsClaimed ==
  \A r \in Reqs :
    (/\ RanOnPage(r)
     /\ req[r].fault \in {"", "waitForSelector"}
     /\ QualifyingCards(r) = {}) => EmptySuccess(r)

\* C9, amended: a search whose page shows a productCard element within the
\* wait and has no card with a title and a price when it is read succeeds with
\* totalResults 0 and empty results; a search whose page shows no productCard
\* element within the wait throws 'Failed to scrape <site name>: <timeout>'.
C9_EmptyResult ==
  \A r \in Reqs :
    /\ (RanOnPage(r) /\ req[r].fault = "" /\ QualifyingCards(r) = {}) => EmptySuccess(r)
    /\ (RanOnPage(r) /\ req[r].fault = "waitForSelector") =>
         /\ CardsOf(r) = <<>>
         /\ req[r].result = None
         /\ req[r].error =
              Some("Failed to scrape " \o req[r].siteConfig.name \o ": "
                     \o WaitCause(req[r].siteConfig.selectors.productCard))

\* C9: a search read a page whose three cards all lack a title or a price
C9_Witness ==
  \E r \in Reqs :
    /\ RanOnPage(r)
    /\ req[r].fault = ""
    /\ Len(CardsOf(r)) = 3
    /\ QualifyingCards(r) = {}
    /\ EmptySuccess(r)

\* totalResults is the length of results, each with a title and a price
WellFormed(res) ==
  /\ res.totalResults = Len(res.results)
  /\ \A i \in 1..Len(res.results) :
       res.results[i].title # None /\ res.results[i].price # None

\* C10: every result of search, fresh, cached or stored, has totalResults
\* equal to the length of results and a title and a price in every element;
\* a fresh result has one element for each card with a title and a price, and
\* none for a card with only one of them.
C10_ResultsWellFormed ==
  /\ \A r \in Reqs :
       (req[r].op = "search" /\ IsSome(req[r].result)) =>
         /\ WellFormed(Val(req[r].result))
         /\ (RanOnPage(r) /\ req[r].fault = "") =>
              Val(req[r].result).totalResults = Cardinality(QualifyingCards(r))
  /\ \A k \in DOMAIN cache : WellFormed(cache[k].data)

\* C10: a fresh result kept one of the two cards of its page, and another
\* search was served that result from the cache
C10_Witness ==
  \E r, q \in Reqs :
    /\ RanOnPage(r)
    /\ req[r].fault = ""
    /\ Len(CardsOf(r)) = 2
    /\ Val(req[r].result).totalResults = 1
    /\ req[q].hit
    /\ Val(req[q].result).totalResults = 1
    /\ ~Val(req[r].result).cached
    /\ Val(req[q].result).cached

\* C11, as claimed: the result a hit returns is the result the search that
\* stored the entry returned, with cached true, whatever the callers did to
\* the objects they were given; the stored data has cached false.
C11_AsClaimed ==
  /\ \A k \in DOMAIN cache : ~cache[k].data.cached
  /\ \A q \in Reqs :
       (req[q].hit /\ req[q].servedBy # 0) =>
         /\ Val(req[q].result).cached
         /\ SameData(Val(req[q].result), Val(req[req[q].servedBy].result))

\* C12: whenever a search stores its result, whether or not another search
\* for the key stored before it, the entry of its key becomes that result with
\* the time of that store, and no other entry changes; so of two overlapping
\* searches for one key that both scraped, the one that stored last is in the
\* cache.
C12_LastStoreWins ==
  [][\A r \in Reqs :
       (req[r].storedAt = -1 /\ req'[r].storedAt # -1) =>
         /\ ~req[r].hit
         /\ req[r].cacheKey \in DOMAIN cache'
         /\ cache'[req[r].cacheKey] =
              [data |-> Val(req'[r].result), timestamp |-> now']
         /\ \A k \in DOMAIN cache \ {req[r].cacheKey} :
              k \in DOMAIN cache' /\ cache'[k] = cache[k]]_vars

\* C12: two overlapping searches for one key both missed and both scraped,
\* with different results, and the cache holds the result of the later store
C12_Witness ==
  \E r, q \in Reqs :
    /\ r # q
    /\ req[r].op = "search" /\ req[q].op = "search"
    /\ req[r].cacheKey = req[q].cacheKey
    /\ ~req[r].hit /\ ~req[q].hit
    /\ req[r].storedAt # -1 /\ req[q].storedAt > req[r].storedAt
    /\ now - req[r].storedAt < cacheTimeout
    /\ r \in live /\ q \in live
    /\ Val(req[r].result).results # Val(req[q].result).results
    /\ cache[req[q].cacheKey] =
         [data |-> Val(req[q].result), timestamp |-> req[q].storedAt]

\* C13, as claimed: a close() that finds no browser changes nothing; a close()
\* that finds one leaves, when it returns, that process closed, the handle
\* null and no browser process of this scraper running.
C13_AsClaimed ==
  [][\A r \in Reqs :
       /\ (req[r].op = "idle" /\ req'[r].op = "close" /\ browser = 0) =>
            /\ req'[r].pc = "done"
            /\ browser' = 0
            /\ procs' = procs
       /\ (req[r].pc = "closeWait" /\ req'[r].pc = "done") =>
            /\ procs'[req[r].onBrowser] = "closed"
            /\ browser' = 0
            /\ \A p \in DOMAIN procs' : procs'[p] # "running"]_vars

\* C14: a search that hits the cache returns at once and changes nothing: not
\* the browser handle, no browser process, no page context, no navigation,
\* and no cache entry or timestamp; and nothing happens to it afterwards.
C14_HitHasNoEffect ==
  [][\A r \in Reqs :
       /\ (req[r].op = "idle" /\ req'[r].op = "search" /\ req'[r].hit) =>
            /\ req'[r].pc = "done"
            /\ cache' = cache
            /\ browser' = browser
            /\ procs' = procs
            /\ pages' = pages
       /\ (req[r].op = "search" /\ req[r].hit /\ req'[r].op = "search") =>
            /\ req'[r].pc = "done"
            /\ pages'[r] = NoPage
            /\ procs'[r] = "none"]_vars

\* C14: a search hit an entry stored half an hour before, and the entry still
\* has the timestamp of its store
C14_Witness ==
  \E r \in Reqs :
    /\ req[r].op = "search"
    /\ req[r].hit
    /\ req[r].servedBy # 0
    /\ cache[req[r].cacheKey].timestamp = req[req[r].servedBy].storedAt
    /\ cache[req[r].cacheKey].timestamp < now
    /\ pages[r] = NoPage

EndsWith(s, suffix) ==
  Len(s) >= Len(suffix) /\ SubSeq(s, Len(s) - Len(suffix) + 1, Len(s)) = suffix

\* the product code the claim gives for a resolved link
ClaimedCode(url) ==
  IF url = None THEN None
  ELSE IF EndsWith(Val(url), "/p7X42AB") THEN Some("7X42AB")
  ELSE IF EndsWith(Val(url), "/p60545") THEN Some("60545")
  ELSE IF EndsWith(Val(url), "/product/AB12") THEN Some("AB12")
  ELSE None

\* C15, as claimed: every product of a result has the product code the claim
\* gives for its link: the code after /p, the code after /product/, and null
\* for a link with neither or for no link.
C15_AsClaimed ==
  \A r \in Reqs :
    (req[r].op = "search" /\ IsSome(req[r].result)) =>
      \A i \in 1..Len(Val(req[r].result).results) :
        Val(req[r].result).results[i].productCode =
          ClaimedCode(Val(req[r].result).results[i].url)

\* C16: no step of a getProductDetails call, be it one that succeeds or one
\* that fails, changes the cache, and a call that returns a result has made
\* one navigation of its own, to its product URL.
C16_DetailsWithoutCache ==
  [][\A r \in Reqs :
       (req'[r] # req[r] /\ req'[r].op = "details") =>
         /\ cache' = cache
         /\ req'[r].storedAt = -1
         /\ ~req'[r].hit
         /\ IsSome(req'[r].result) =>
              pages'[r].navigations = <<req'[r].productUrl>>]_vars

\* C16: two getProductDetails calls for one product URL have both returned a
\* result, each after a navigation of its own
C16_Witness ==
  \E r, q \in Reqs :
    /\ r # q
    /\ req[r].op = "details" /\ req[q].op = "details"
    /\ req[r].productUrl = req[q].productUrl
    /\ req[r].pc = "done" /\ req[q].pc = "done"
    /\ IsSome(req[r].result) /\ IsSome(req[q].result)
    /\ Len(pages[r].navigations) = 1 /\ Len(pages[q].navigations) = 1
    /\ req[q].onBrowser = req[r].onBrowser

\* the order of the steps the claim gives, as pairs of positions: a step
\* begins where the one before it succeeded
OrderOfSteps(op) ==
  IF op = "search"
  THEN {<<"newPage", "configure">>, <<"configure", "goto">>,
        <<"goto", "waitForSelector">>, <<"waitForSelector", "settle">>,
        <<"settle", "evaluate">>, <<"evaluate", "closing">>,
        <<"closing", "done">>}
  ELSE {<<"newPage", "configure">>, <<"configure", "goto">>,
        <<"goto", "settle">>, <<"settle", "evaluate">>,
        <<"evaluate", "closing">>, <<"closing", "done">>}

\* C17: a search that missed the cache, and a getProductDetails call, go from
\* one step to the next in the order open page, navigate, wait for a card
\* (search only), settle, extract, close, return, and go on only while no step
\* has failed; the navigation is made when the page is open, the result is
\* stored (search only) at the moment the extraction succeeds, before the page
\* is closed, and the call returns after the close.
C17_OrderOfSteps ==
  [][\A r \in Reqs :
       (/\ req[r].op \in {"search", "details"}
        /\ req'[r].op = req[r].op
        /\ req[r].pc \notin {"launch", "done"}
        /\ req'[r].pc # req[r].pc) =>
         /\ \/ /\ <<req[r].pc, req'[r].pc>> \in OrderOfSteps(req[r].op)
               /\ req[r].fault = ""
               /\ req'[r].fault = ""
            \/ /\ req[r].fault = ""
               /\ req'[r].fault # ""
               /\ req'[r].pc = IF req[r].pc = "newPage" THEN "done" ELSE "closing"
               /\ req'[r].result = None
            \/ /\ req[r].fault # ""
               /\ req'[r].fault = req[r].fault
               /\ req[r].pc = "closing"
               /\ req'[r].pc = "done"
         /\ req'[r].pc \in {"configure", "goto"} => pages'[r].open
         /\ req'[r].pc \in {"waitForSelector", "settle", "evaluate"} =>
              pages'[r].navigations = <<targetUrl(r)>>
         /\ req[r].pc # "goto" => pages'[r].navigations = pages[r].navigations
         /\ (req'[r].storedAt # req[r].storedAt) <=>
              /\ req[r].op = "search"
              /\ req[r].pc = "evaluate"
              /\ req'[r].fault = ""
         /\ (req[r].pc = "evaluate" /\ req'[r].fault = "") =>
              /\ IsSome(req'[r].result)
              /\ pages'[r].closeCalls = 1
              /\ pages[r].closeCalls = 0
         /\ req[r].pc # "evaluate" => req'[r].result = req[r].result
         /\ req'[r].pc = "done" =>
              /\ req[r].pc \in {"closing", "newPage"}
              /\ ~pages'[r].open]_vars

\* C17: a search that missed has gone through all its steps and returned, its
\* result stored and its page closed
C17_Witness ==
  \E r \in Reqs :
    /\ req[r].op = "search"
    /\ ~req[r].hit
    /\ req[r].pc = "done"
    /\ req[r].fault = ""
    /\ IsSome(req[r].result)
    /\ req[r].storedAt # -1
    /\ Len(pages[r].navigations) = 1
    /\ pages[r].closeCalls = 1
    /\ ~pages[r].open

\* q is a finished search that scraped, not an hour ago, for the name, query
\* and page that call r is made with in this step
EarlierSame(q, r) ==
  /\ req[q].op = "search"
  /\ req[q].pc = "done"
  /\ req[q].storedAt # -1
  /\ now - req[q].storedAt < cacheTimeout
  /\ req[q].siteConfig.name = req'[r].siteConfig.name
  /\ req[q].query = req'[r].query
  /\ req[q].page = req'[r].page

\* search r, called in this step, is served the result of q without any
\* browser work
ServedAtOnce(r, q) ==
  /\ req'[r].hit
  /\ req'[r].pc = "done"
  /\ Val(req'[r].result).cached
  /\ SameData(Val(req'[r].result), Val(req[q].result))
  /\ browser' = browser
  /\ procs' = procs
  /\ pages' = pages

\* C18, as claimed: a search with the name, query and page of an earlier
\* successful search not yet an hour old is served that search's result, with
\* no browser work, whatever its searchUrl and selectors.
C18_AsClaimed ==
  [][\A r \in Reqs :
       (req[r].op = "idle" /\ req'[r].op = "search") =>
         \A q \in Reqs : EarlierSame(q, r) => ServedAtOnce(r, q)]_vars

\* C18, amended: the same, provided no clearCache and no other store under
\* the key came between the earlier search's store and the call; and a search
\* is never served a result stored for another name, query (compared with
\* letter case) or page.
C18_KeyIsNameQueryPage ==
  [][\A r \in Reqs :
       (req[r].op = "idle" /\ req'[r].op = "search") =>
         /\ \A q \in latest : EarlierSame(q, r) => ServedAtOnce(r, q)
         /\ \A q \in Reqs :
              (req'[r].hit /\ req'[r].servedBy = q) =>
                /\ req[q].siteConfig.name = req'[r].siteConfig.name
                /\ req[q].query = req'[r].query
                /\ req[q].page = req'[r].page
                /\ SameData(Val(req'[r].result), cache[req[q].cacheKey].data)]_vars

\* C18: a search was served from the cache the result that a search with the
\* same name, query and page but another searchUrl and other selectors stored
C18_Witness ==
  \E r, q \in Reqs :
    /\ req[r].op = "search"
    /\ req[r].hit
    /\ req[r].servedBy = q
    /\ req[q].siteConfig.searchUrl # req[r].siteConfig.searchUrl
    /\ req[q].siteConfig.selectors # req[r].siteConfig.selectors
    /\ Val(req[r].result).totalResults > 0
    /\ pages[r] = NoPage

\* the URL the claim gives for a search of Acme: the one {query} replaced by
\* the percent-encoded query
ClaimedUrl(query) ==
  "https://acme.test/s?q="
    \o (IF query = "cordless drill" THEN "cordless%20drill" ELSE query)

\* C19: a search navigates to its searchUrl with {query} replaced by the
\* percent-encoded query, whatever its page; two searches of one configuration
\* and query with different pages navigate to the same URL, have different
\* cache keys, and the entry each stores is under its own key with its page.
C19_UrlWithoutPage ==
  /\ \A r \in Reqs :
       (req[r].op = "search" /\ pages[r].navigations # <<>>) =>
         pages[r].navigations = <<ClaimedUrl(req[r].query)>>
  /\ \A r, q \in Reqs :
       (/\ req[r].op = "search" /\ req[q].op = "search"
        /\ req[r].siteConfig = req[q].siteConfig
        /\ req[r].query = req[q].query
        /\ req[r].page # req[q].page) =>
         /\ req[r].cacheKey # req[q].cacheKey
         /\ (pages[r].navigations # <<>> /\ pages[q].navigations # <<>>) =>
              pages[r].navigations = pages[q].navigations
  /\ \A r \in latest :
       req[r].cacheKey \in DOMAIN cache =>
         /\ cache[req[r].cacheKey].data.page = req[r].page
         /\ cache[req[r].cacheKey].data.query = req[r].query

\* C19: two searches of one configuration and query for pages 1 and 2 both
\* missed, navigated to the same URL, and left two entries in the cache
C19_Witness ==
  \E r, q \in Reqs :
    /\ req[r].op = "search" /\ req[q].op = "search"
    /\ req[r].siteConfig = req[q].siteConfig
    /\ req[r].query = req[q].query
    /\ req[r].page = 1 /\ req[q].page = 2
    /\ ~req[r].hit /\ ~req[q].hit
    /\ req[r].storedAt # -1 /\ req[q].storedAt # -1
    /\ pages[r].navigations = <<"https://acme.test/s?q=drill">>
    /\ pages[q].navigations = pages[r].navigations
    /\ {req[r].cacheKey, req[q].cacheKey} \subseteq DOMAIN cache
    /\ cache[req[r].cacheKey].data.page = 1
    /\ cache[req[q].cacheKey].data.page = 2

\* C20, as claimed: whenever a search or a getProductDetails call calls
\* newPage, the handle it calls it on is not null and references a browser
\* process that is running, on which no close() has been called; and the page
\* context a call gets is of the browser it asked.
C20_AsClaimed ==
  [][\A r \in Reqs :
       /\ (req'[r].pc = "newPage" /\ req[r].pc # "newPage") =>
            /\ req'[r].onBrowser # 0
            /\ req'[r].onBrowser = browser'
            /\ procs'[req'[r].onBrowser] = "running"
       /\ (req[r].pc = "newPage" /\ req'[r].pc = "configure") =>
            /\ pages'[r].open
            /\ pages'[r].browser = req[r].onBrowser]_vars

====
